---------------------------- MODULE Spec2Model ----------------------------
(***************************************************************************)
(* A model of the matplotlib binding: the plot command (src/src/pyplot.rs  *)
(* main), its two data transforms (segments_to_points and the scatter      *)
(* sampling), and the wrapper library (src/src/lib.rs PyPlot::with_plt,    *)
(* PyPlot / Figure / Axes forwarding methods).                             *)
(*                                                                         *)
(* Floating point values are exact rationals <<num, den>> or, for f64      *)
(* values that may be NaN, records [nan, v].  The u32 -> f32 cast rounds   *)
(* to 24 significant bits as the hardware does.                            *)
(***************************************************************************)
EXTENDS Integers, Sequences, FiniteSets, TLC

VARIABLES
    pc,         \* position of the running program
    args,       \* command line of the plot command (Args / PlotArgs)
    positions,  \* positions returned by countfile.get(target).to_vecs()
    counts,     \* counts returned by countfile.get(target).to_vecs()
    coverage,   \* countfile.coverage()
    segments,   \* Data.segments read from --segments
    jit,        \* the jitter drawn by rng.gen() for each count, in 1/JitterDen
    sx, sy,     \* the arrays the scatter call received
    x, y,       \* the iterators returned by segments_to_points (main's x, y)
    out,        \* the lines printed by --dump, as <<xi, yi>> pairs
    lx, ly,     \* the arrays the line call received
    calls,      \* the library calls attempted so far, in order
    barin,      \* the inputs and return of every Axes::bar invocation
    gil,        \* interpreter sessions currently held
    cb,         \* with_plt's callback: invocations, session/import state seen, return
    hnd,        \* handles the running closure holds: PyPlot, Figure, Axes
    result      \* what the program returned

vars == <<pc, args, positions, counts, coverage, segments, jit, sx, sy, x, y,
          out, lx, ly, calls, barin, gil, cb, hnd, result>>

---------------------------------------------------------------------------
(* Bounds of the model. *)

\* Length of the positions / counts vectors.
MaxLen == 3
\* Longest segment sequence.
MaxSegs == 2
\* Largest --step.
MaxStep == 3
\* Most wrapper calls a with_plt callback makes.
MaxCalls == 4

\* The jitter U = j / JitterDen for j in Jitters, so U \in [0, 1).
Jitters == {0, 1, 2, 3}
JitterDen == Cardinality(Jitters)

---------------------------------------------------------------------------
(* Values *)

SeqsUpTo(S, n) == UNION {[1..k -> S] : k \in 0..n}

Min(a, b) == IF a <= b THEN a ELSE b

\* f64 values: a number or NaN.
F64(v) == [nan |-> FALSE, v |-> v]
NaN == [nan |-> TRUE, v |-> 0]

\* Exact rationals.
Rat(n, d) == <<n, d>>
RatAdd(a, b) == <<a[1] * b[2] + b[1] * a[2], a[2] * b[2]>>
RatSub(a, b) == <<a[1] * b[2] - b[1] * a[2], a[2] * b[2]>>
RatMul(a, b) == <<a[1] * b[1], a[2] * b[2]>>
RatDiv(a, b) == IF b[1] > 0 THEN <<a[1] * b[2], a[2] * b[1]>>
                ELSE <<-(a[1] * b[2]), a[2] * (-b[1])>>

RECURSIVE Pow2(_)
Pow2(n) == IF n = 0 THEN 1 ELSE 2 * Pow2(n - 1)

RECURSIVE Log2(_)
Log2(n) == IF n <= 1 THEN 0 ELSE 1 + Log2(n \div 2)

\* Significant bits of an f32.
F32Mantissa == 24

\* `p as f32` for a u32 p: round to nearest, ties to even, 24 significant bits.
U32AsF32(p) ==
    LET e == Log2(p)
    IN  IF e < F32Mantissa THEN p
        ELSE LET ulp == Pow2(e - F32Mantissa + 1)
                 q   == p \div ulp
                 r   == p % ulp
             IN  IF 2 * r < ulp THEN q * ulp
                 ELSE IF 2 * r > ulp THEN (q + 1) * ulp
                 ELSE IF q % 2 = 0 THEN q * ulp ELSE (q + 1) * ulp

---------------------------------------------------------------------------
(* Results *)

Running == [kind |-> "running", src |-> ""]
Ok == [kind |-> "ok", src |-> ""]
Err(src) == [kind |-> "err", src |-> src]
Panic(src) == [kind |-> "panic", src |-> src]

Call(name, kw, ok) == [name |-> name, kw |-> kw, ok |-> ok]

NoArgs == [segments |-> FALSE, target |-> FALSE, dump |-> FALSE, step |-> 1,
           max_count |-> 0]
NoCb == [count |-> 0, held |-> FALSE, imported |-> FALSE, ret |-> Running]
NoHnd == [plt |-> FALSE, fig |-> FALSE, ax |-> FALSE]

---------------------------------------------------------------------------
(* segments_to_points *)

\* A segment is (r, v): the index range r.start .. r.end and the level v.
Seg(s, e, v) == [start |-> s, end |-> e, v |-> v]

\* The panics of the x closure on one segment: positions[r.start] is indexed
\* first, then positions[r.end - 1].  r.end - 1 on r.end = 0 panics on the
\* subtraction where overflow checks are on, and wraps to usize::MAX and
\* panics on the index where they are off.
XClosurePanics(seg, pos) ==
    IF seg.start >= Len(pos) THEN {"index"}
    ELSE IF seg.end = 0 THEN {"overflow", "index"}
    ELSE IF seg.end - 1 >= Len(pos) THEN {"index"}
    ELSE {}

XClosureNoRepeat(seg, pos) == <<pos[seg.start + 1], pos[seg.end]>>

\* once(positions[r.start]).chain(repeat_n(positions[r.end - 1], 2))
XClosure(seg, pos) == <<pos[seg.start + 1], pos[seg.end], pos[seg.end]>>

YClosureNanFirst(seg) == <<NaN, F64(seg.v), F64(seg.v)>>

\* repeat_n(v, 2).chain(once(&NAN))
YClosure(seg) == <<F64(seg.v), F64(seg.v), NaN>>

\* A flat_map iterator over segments.iter(): the next segment to open and
\* what is left of the inner iterator opened last.
IterNew == [i |-> 0, buf |-> <<>>]

IterClone(it) == it

\* segments_to_points(segments, positions): the pair (x, y) of lazy
\* iterators; nothing is indexed until they are run.
segments_to_points(segs, pos) == [x |-> IterNew, y |-> IterNew]

\* x.next(): the closure runs when a segment is opened.
XNext(it, segs, pos) ==
    IF it.buf # <<>>
    THEN [kind |-> "some", val |-> Head(it.buf), panics |-> {},
          it |-> [it EXCEPT !.buf = Tail(it.buf)]]
    ELSE IF it.i >= Len(segs)
    THEN [kind |-> "none", val |-> 0, panics |-> {}, it |-> it]
    ELSE IF XClosurePanics(segs[it.i + 1], pos) # {}
    THEN [kind |-> "panic", val |-> 0,
          panics |-> XClosurePanics(segs[it.i + 1], pos), it |-> it]
    ELSE LET b == XClosure(segs[it.i + 1], pos)
         IN  [kind |-> "some", val |-> Head(b), panics |-> {},
              it |-> [i |-> it.i + 1, buf |-> Tail(b)]]

\* y.next(): the y closure indexes nothing and cannot panic.
YNext(it, segs) ==
    IF it.buf # <<>>
    THEN [kind |-> "some", val |-> Head(it.buf), panics |-> {},
          it |-> [it EXCEPT !.buf = Tail(it.buf)]]
    ELSE IF it.i >= Len(segs)
    THEN [kind |-> "none", val |-> NaN, panics |-> {}, it |-> it]
    ELSE LET b == YClosure(segs[it.i + 1])
         IN  [kind |-> "some", val |-> Head(b), panics |-> {},
              it |-> [i |-> it.i + 1, buf |-> Tail(b)]]

\* Running an x iterator to its end: the items it yields, the iterator it
\* leaves, and the panics that stop it.
RECURSIVE XCollect(_, _, _, _)
XCollect(it, segs, pos, acc) ==
    LET n == XNext(it, segs, pos)
    IN  IF n.kind = "some" THEN XCollect(n.it, segs, pos, Append(acc, n.val))
        ELSE [items |-> acc, panics |-> n.panics, it |-> n.it]

RECURSIVE YCollect(_, _, _)
YCollect(it, segs, acc) ==
    LET n == YNext(it, segs)
    IN  IF n.kind = "some" THEN YCollect(n.it, segs, Append(acc, n.val))
        ELSE [items |-> acc, panics |-> {}, it |-> n.it]

\* x.zip(y) run to its end: x.next() is called first, and y.next() only when
\* x yielded.
RECURSIVE ZipCollect(_, _, _, _, _)
ZipCollect(ix, iy, segs, pos, acc) ==
    LET a == XNext(ix, segs, pos)
    IN  IF a.kind # "some"
        THEN [items |-> acc, panics |-> a.panics, x |-> a.it, y |-> iy]
        ELSE LET b == YNext(iy, segs)
             IN  IF b.kind # "some"
                 THEN [items |-> acc, panics |-> {}, x |-> a.it, y |-> b.it]
                 ELSE ZipCollect(a.it, b.it, segs, pos,
                                 Append(acc, <<a.val, b.val>>))

---------------------------------------------------------------------------
(* Scatter sampling (main, the block before ax.scatter) *)

\* iter.step_by(s): the first item, then every s-th after it.
RECURSIVE StepBy(_, _)
StepBy(seq, s) ==
    IF seq = <<>> THEN <<>>
    ELSE <<Head(seq)>> \o StepBy(SubSeq(seq, s + 1, Len(seq)), s)

ScatterXOffByOne(pos, step) ==
    StepBy([i \in 1..Len(pos) |-> U32AsF32(pos[i])], step + 1)

\* positions.iter().map(|&p| p as f32).step_by(step)
ScatterX(pos, step) == StepBy([i \in 1..Len(pos) |-> U32AsF32(pos[i])], step)

JitterYNoClamp(c, j, max_count, cov) ==
    RatDiv(RatMul(RatSub(RatAdd(Rat(c, 1), Rat(j, JitterDen)), Rat(1, 2)),
                  Rat(2, 1)), Rat(cov, 1))

\* One count through the map chain: clamp to max_count, cast, add the jitter
\* and subtract 0.5, then multiply by 2.0 and divide by the coverage.
JitterY(c, j, max_count, cov) ==
    LET v1 == Min(c, max_count)
        v2 == Rat(v1, 1)
        v3 == RatSub(RatAdd(v2, Rat(j, JitterDen)), Rat(1, 2))
    IN  RatDiv(RatMul(v3, Rat(2, 1)), Rat(cov, 1))

\* counts.iter().map(..).map(..).map(..).map(..).step_by(step): the closures
\* run on every count, so every count draws a jitter.
ScatterY(cnt, js, max_count, cov, step) ==
    StepBy([i \in 1..Len(cnt) |-> JitterY(cnt[i], js[i], max_count, cov)], step)

---------------------------------------------------------------------------
(* The plot command: main of src/src/pyplot.rs *)

\* Leaving the with_gil closure: the session is released and main returns.
Leave(r) ==
    /\ pc' = "done"
    /\ gil' = 0
    /\ hnd' = NoHnd
    /\ result' = r

\* args.segments.clone().map(|s| Data::read_file(&s)).transpose()?
ReadData ==
    /\ pc = "start"
    /\ \/ /\ args.segments
          /\ \E ok \in BOOLEAN :
                IF ok THEN pc' = "target" /\ result' = result
                ELSE pc' = "done" /\ result' = Err("read_file")
       \/ /\ ~args.segments
          /\ pc' = "target"
          /\ result' = result
    /\ UNCHANGED <<args, positions, counts, coverage, segments, jit, sx, sy, x,
                   y, out, lx, ly, calls, barin, gil, cb, hnd>>

TargetNoCheck ==
    /\ pc = "target"
    /\ pc' = "counts"
    /\ UNCHANGED <<args, positions, counts, coverage, segments, jit, sx, sy, x,
                   y, out, lx, ly, calls, barin, gil, cb, hnd, result>>

\* data.map(|d| d.target).or_else(|| args.target.clone())
\*     .ok_or("Need --segments or --target")?
Target ==
    /\ pc = "target"
    /\ IF args.segments \/ args.target
       THEN pc' = "counts" /\ result' = result
       ELSE pc' = "done" /\ result' = Err("Need --segments or --target")
    /\ UNCHANGED <<args, positions, counts, coverage, segments, jit, sx, sy, x,
                   y, out, lx, ly, calls, barin, gil, cb, hnd>>

\* CountFile::from_path()?, countfile.get(&target)?.to_vecs(),
\* countfile.coverage()?, and the second read of --segments.
Counts ==
    /\ pc = "counts"
    /\ \E r \in {"ok", "from_path", "get", "coverage"}
                \cup (IF args.segments THEN {"read_file"} ELSE {}) :
          IF r = "ok" THEN pc' = "with_gil" /\ result' = result
          ELSE pc' = "done" /\ result' = Err(r)
    /\ UNCHANGED <<args, positions, counts, coverage, segments, jit, sx, sy, x,
                   y, out, lx, ly, calls, barin, gil, cb, hnd>>

\* Python::with_gil(|py| { ... })
WithGil ==
    /\ pc = "with_gil"
    /\ gil' = gil + 1
    /\ pc' = "import"
    /\ UNCHANGED <<args, positions, counts, coverage, segments, jit, sx, sy, x,
                   y, out, lx, ly, calls, barin, cb, hnd, result>>

ForwardKeepGoing(name, kw, ok, next, h) ==
    /\ calls' = Append(calls, Call(name, kw, ok))
    /\ pc' = next /\ hnd' = h /\ UNCHANGED <<gil, result>>

\* A forwarded library call: it is logged, and on failure the ? operator
\* leaves the closure with the library's error.
Forward(name, kw, ok, next, h) ==
    /\ calls' = Append(calls, Call(name, kw, ok))
    /\ IF ok THEN pc' = next /\ hnd' = h /\ UNCHANGED <<gil, result>>
       ELSE Leave(Err(name))

\* let plt = PyPlot::new(py)?
Import ==
    /\ pc = "import"
    /\ \E ok \in BOOLEAN :
          Forward("import", {}, ok, "figure", [hnd EXCEPT !.plt = TRUE])
    /\ UNCHANGED <<args, positions, counts, coverage, segments, jit, sx, sy, x,
                   y, out, lx, ly, barin, cb>>

\* let fig = plt.figure()?
FigureCall ==
    /\ pc = "figure"
    /\ \E ok \in BOOLEAN :
          Forward("figure", {}, ok, "gca", [hnd EXCEPT !.fig = TRUE])
    /\ UNCHANGED <<args, positions, counts, coverage, segments, jit, sx, sy, x,
                   y, out, lx, ly, barin, cb>>

\* let ax = fig.gca()?
Gca ==
    /\ pc = "gca"
    /\ \E ok \in BOOLEAN :
          Forward("gca", {}, ok, "scatter", [hnd EXCEPT !.ax = TRUE])
    /\ UNCHANGED <<args, positions, counts, coverage, segments, jit, sx, sy, x,
                   y, out, lx, ly, barin, cb>>

\* The scatter block: step_by(0) panics; otherwise the sampled x and the
\* clamped, jittered, scaled y go to ax.scatter(x, y, alpha)?, which builds
\* the two arrays and calls plot(x, y, ".", alpha=.., ms=1.0).
Scatter ==
    /\ pc = "scatter"
    /\ IF args.step = 0
       THEN /\ Leave(Panic("step_by"))
            /\ UNCHANGED <<jit, sx, sy, calls>>
       ELSE \E js \in [1..Len(counts) -> Jitters], ok \in BOOLEAN :
               /\ jit' = js
               /\ sx' = ScatterX(positions, args.step)
               /\ sy' = ScatterY(counts, js, args.max_count, coverage, args.step)
               /\ Forward("scatter", {"alpha", "ms"}, ok, "segments", hnd)
    /\ UNCHANGED <<args, positions, counts, coverage, segments, x, y, out, lx,
                   ly, barin, cb>>

\* segments.map(|s| { let (x, y) = segments_to_points(&s.segments, &positions);
\* without --segments the closure does not run.
SegmentsMap ==
    /\ pc = "segments"
    /\ IF args.segments
       THEN /\ x' = segments_to_points(segments, positions).x
            /\ y' = segments_to_points(segments, positions).y
            /\ pc' = IF args.dump THEN "dump" ELSE "line"
       ELSE /\ pc' = "show"
            /\ UNCHANGED <<x, y>>
    /\ UNCHANGED <<args, positions, counts, coverage, segments, jit, sx, sy,
                   out, lx, ly, calls, barin, gil, cb, hnd, result>>

DumpOriginals ==
    /\ pc = "dump"
    /\ LET cx == XCollect(x, segments, positions, <<>>)
           cy == YCollect(y, segments, <<>>)
           z  == ZipCollect(x, y, segments, positions, <<>>)
       IN  IF cx.panics # {}
           THEN /\ \E k \in cx.panics : Leave(Panic(k))
                /\ UNCHANGED <<out, x, y>>
           ELSE /\ out' = z.items
                /\ x' = z.x
                /\ y' = z.y
                /\ pc' = "line"
                /\ UNCHANGED <<gil, hnd, result>>
    /\ UNCHANGED <<args, positions, counts, coverage, segments, jit, sx, sy,
                   lx, ly, calls, barin, cb>>

\* if args.dump { let (x, y) = (x.clone(), y.clone());
\*   assert_eq!(x.clone().count(), y.clone().count());
\*   for (xi, yi) in x.zip(y) { println!(..) } }
\* The inner x, y shadow main's; only clones are consumed.
Dump ==
    /\ pc = "dump"
    /\ LET x1 == IterClone(x)
           y1 == IterClone(y)
           cx == XCollect(IterClone(x1), segments, positions, <<>>)
           cy == YCollect(IterClone(y1), segments, <<>>)
           z  == ZipCollect(x1, y1, segments, positions, <<>>)
       IN  IF cx.panics # {}
           THEN /\ \E k \in cx.panics : Leave(Panic(k))
                /\ out' = out
           ELSE IF Len(cx.items) # Len(cy.items)
           THEN /\ Leave(Panic("assert_eq"))
                /\ out' = out
           ELSE /\ out' = z.items
                /\ pc' = "line"
                /\ UNCHANGED <<gil, hnd, result>>
    /\ UNCHANGED <<args, positions, counts, coverage, segments, jit, sx, sy, x,
                   y, lx, ly, calls, barin, cb>>

\* ax.line(x, y): PyArray1::from_iter(x), PyArray1::from_iter(y), then
\* plot(x, y).  Building the x array runs the x closure over every segment.
Line ==
    /\ pc = "line"
    /\ LET cx == XCollect(x, segments, positions, <<>>)
           cy == YCollect(y, segments, <<>>)
       IN  IF cx.panics # {}
           THEN /\ \E k \in cx.panics : Leave(Panic(k))
                /\ UNCHANGED <<x, y, lx, ly, calls>>
           ELSE /\ x' = cx.it
                /\ y' = cy.it
                /\ lx' = cx.items
                /\ ly' = cy.items
                /\ \E ok \in BOOLEAN : Forward("line", {}, ok, "show", hnd)
    /\ UNCHANGED <<args, positions, counts, coverage, segments, jit, sx, sy,
                   out, barin, cb>>

\* plt.show()?; Ok(())
Show ==
    /\ pc = "show"
    /\ \E ok \in BOOLEAN :
          /\ calls' = Append(calls, Call("show", {}, ok))
          /\ Leave(IF ok THEN Ok ELSE Err("show"))
    /\ UNCHANGED <<args, positions, counts, coverage, segments, jit, sx, sy, x,
                   y, out, lx, ly, barin, cb>>

---------------------------------------------------------------------------
(* The wrapper library: src/src/lib.rs *)

\* let cmd = if horizontal { "barh" } else { "bar" };
BarCmd(horizontal) == IF horizontal THEN "barh" ELSE "bar"

BarSizeSwapped(horizontal) == IF horizontal THEN "width" ELSE "height"

\* let bar_size = if horizontal { "height" } else { "width" };
BarSize(horizontal) == IF horizontal THEN "height" ELSE "width"

\* widths.map(|widths| [(bar_size, widths)].into_py_dict(self.py))
BarKw(horizontal, widths) ==
    IF widths = "None" THEN {} ELSE {<<BarSize(horizontal), widths>>}

\* Python::with_gil(|py| { ... }) of with_plt
WithPltEnter ==
    /\ pc = "wp_start"
    /\ gil' = gil + 1
    /\ pc' = "wp_import"
    /\ UNCHANGED <<args, positions, counts, coverage, segments, jit, sx, sy, x,
                   y, out, lx, ly, calls, barin, cb, hnd, result>>

WithPltImportIgnoreError ==
    /\ pc = "wp_import"
    /\ \E ok \in BOOLEAN :
          /\ calls' = Append(calls, Call("import", {}, ok))
          /\ hnd' = [hnd EXCEPT !.plt = ok]
          /\ pc' = "wp_call"
          /\ UNCHANGED <<gil, result>>
    /\ UNCHANGED <<args, positions, counts, coverage, segments, jit, sx, sy, x,
                   y, out, lx, ly, barin, cb>>

\* let plt = PyPlot::new(py)?;  on failure the closure returns the import
\* error and the session is released.
WithPltImport ==
    /\ pc = "wp_import"
    /\ \E ok \in BOOLEAN :
          /\ calls' = Append(calls, Call("import", {}, ok))
          /\ IF ok
             THEN /\ hnd' = [hnd EXCEPT !.plt = TRUE]
                  /\ pc' = "wp_call"
                  /\ UNCHANGED <<gil, result>>
             ELSE Leave(Err("import"))
    /\ UNCHANGED <<args, positions, counts, coverage, segments, jit, sx, sy, x,
                   y, out, lx, ly, barin, cb>>

\* f(plt): the callback starts, with the session and the module it sees.
WithPltCall ==
    /\ pc = "wp_call"
    /\ cb' = [count |-> cb.count + 1, held |-> gil > 0, imported |-> hnd.plt,
              ret |-> Running]
    /\ pc' = "cb"
    /\ UNCHANGED <<args, positions, counts, coverage, segments, jit, sx, sy, x,
                   y, out, lx, ly, calls, barin, gil, hnd, result>>

\* A wrapper call made by the callback; the callback propagates its error.
CbForward(name, kw, ok, h) ==
    /\ Len(calls) <= MaxCalls
    /\ calls' = Append(calls, Call(name, kw, ok))
    /\ IF ok THEN /\ hnd' = h
                  /\ UNCHANGED <<pc, cb>>
       ELSE /\ cb' = [cb EXCEPT !.ret = Err(name)]
            /\ pc' = "wp_ret"
            /\ hnd' = hnd

\* PyPlot::figure
CbFigure ==
    /\ pc = "cb"
    /\ hnd.plt
    /\ \E ok \in BOOLEAN :
          CbForward("figure", {}, ok, [hnd EXCEPT !.fig = TRUE])
    /\ UNCHANGED <<args, positions, counts, coverage, segments, jit, sx, sy, x,
                   y, out, lx, ly, barin, gil, result>>

\* Figure::gca
CbGca ==
    /\ pc = "cb"
    /\ hnd.fig
    /\ \E ok \in BOOLEAN :
          CbForward("gca", {}, ok, [hnd EXCEPT !.ax = TRUE])
    /\ UNCHANGED <<args, positions, counts, coverage, segments, jit, sx, sy, x,
                   y, out, lx, ly, barin, gil, result>>

\* The arrays a caller may pass as widths.
Widths == {"None", "w1", "w2"}

\* Axes::bar(x, height, widths, horizontal): one call_method(cmd, (x, h),
\* kwargs), then Ok(self).
CbBar ==
    /\ pc = "cb"
    /\ hnd.ax
    /\ \E horizontal \in BOOLEAN, widths \in Widths, ok \in BOOLEAN :
          /\ CbForward(BarCmd(horizontal), BarKw(horizontal, widths), ok, hnd)
          /\ barin' = Append(barin, [horizontal |-> horizontal,
                                     widths |-> widths,
                                     ret |-> IF ok THEN "self" ELSE "err"])
    /\ UNCHANGED <<args, positions, counts, coverage, segments, jit, sx, sy, x,
                   y, out, lx, ly, gil, result>>

\* PyPlot::show
CbShow ==
    /\ pc = "cb"
    /\ hnd.plt
    /\ \E ok \in BOOLEAN : CbForward("show", {}, ok, hnd)
    /\ UNCHANGED <<args, positions, counts, coverage, segments, jit, sx, sy, x,
                   y, out, lx, ly, barin, gil, result>>

\* The callback returns a result of its own.
CbReturn ==
    /\ pc = "cb"
    /\ \E r \in {Ok, Err("callback")} : cb' = [cb EXCEPT !.ret = r]
    /\ pc' = "wp_ret"
    /\ UNCHANGED <<args, positions, counts, coverage, segments, jit, sx, sy, x,
                   y, out, lx, ly, calls, barin, gil, hnd, result>>

\* with_gil returns what f returned and releases the session.
WithPltReturn ==
    /\ pc = "wp_ret"
    /\ pc' = "done"
    /\ hnd' = NoHnd
    /\ result' = cb.ret
    /\ gil' = gil - 1
    /\ UNCHANGED <<args, positions, counts, coverage, segments, jit, sx, sy, x,
                   y, out, lx, ly, calls, barin, cb>>

---------------------------------------------------------------------------
(* Inputs *)

\* Segment levels.
Vals == {1, 4}
\* Raw counts (u8) and --max-count values.
CountVals == {0, 50}
MaxCounts == {10, 80}
Coverages == {2, 5}
\* First position of a positions vector; the larger one is past 2^24.
PosBases == {10, 16777211}

PosSeq(base, n) == [i \in 1..n |-> base + 10 * (i - 1)]

\* Segments over a positions vector of length n, valid or not: start = n
\* and end = n + 1 are past the vector, end = 0 has no end - 1.
SegsOver(n) == {Seg(s, e, v) : s \in 0..n, e \in 0..(n + 1), v \in Vals}

ValidSeg(seg, pos) ==
    /\ seg.start < seg.end
    /\ seg.start < Len(pos)
    /\ seg.end >= 1
    /\ seg.end - 1 < Len(pos)

AllValid(segs, pos) == \A i \in 1..Len(segs) : ValidSeg(segs[i], pos)

Idle ==
    /\ jit = <<>> /\ sx = <<>> /\ sy = <<>>
    /\ x = IterNew /\ y = IterNew
    /\ out = <<>> /\ lx = <<>> /\ ly = <<>>
    /\ barin = <<>> /\ cb = NoCb
    /\ result = Running

\* The plot command about to run, on count files of at most one position
\* and segment files of at most one segment.
Init ==
    /\ pc = "start"
    /\ args \in [segments : BOOLEAN, target : BOOLEAN, dump : BOOLEAN,
                 step : 0..MaxStep, max_count : MaxCounts]
    /\ \E n \in 0..1 :
          /\ positions = PosSeq(10, n)
          /\ counts \in [1..n -> CountVals]
          /\ segments \in (IF args.segments
                           THEN SeqsUpTo(SegsOver(n), 1)
                           ELSE {<<>>})
    /\ coverage \in Coverages
    /\ calls = <<>> /\ gil = 0 /\ hnd = NoHnd
    /\ Idle

Next ==
    \/ ReadData \/ Target \/ Counts \/ WithGil \/ Import \/ FigureCall \/ Gca
    \/ Scatter \/ SegmentsMap \/ Dump \/ Line \/ Show

Spec == Init /\ [][Next]_vars

PlottingStarted ==
    <<Call("import", {}, TRUE), Call("figure", {}, TRUE), Call("gca", {}, TRUE)>>

\* The plot command after a successful scatter call, about to plot the
\* segments it read.
InitPoints ==
    /\ pc = "segments"
    /\ args \in [segments : {TRUE}, target : {FALSE}, dump : BOOLEAN,
                 step : {1}, max_count : {80}]
    /\ positions = PosSeq(10, MaxLen)
    /\ counts = [i \in 1..MaxLen |-> 0]
    /\ coverage = 2
    /\ segments \in SeqsUpTo(SegsOver(MaxLen), MaxSegs)
    /\ jit = [i \in 1..MaxLen |-> 0]
    /\ sx = ScatterX(positions, 1)
    /\ sy = ScatterY(counts, jit, 80, 2, 1)
    /\ x = IterNew /\ y = IterNew
    /\ out = <<>> /\ lx = <<>> /\ ly = <<>>
    /\ calls = Append(PlottingStarted, Call("scatter", {"alpha", "ms"}, TRUE))
    /\ barin = <<>> /\ cb = NoCb
    /\ gil = 1 /\ hnd = [plt |-> TRUE, fig |-> TRUE, ax |-> TRUE]
    /\ result = Running

NextPoints == SegmentsMap \/ Dump \/ Line

SpecPoints == InitPoints /\ [][NextPoints]_vars

\* The plot command with its axes, about to sample the counts.
InitScatter ==
    /\ pc = "scatter"
    /\ args \in [segments : {FALSE}, target : {TRUE}, dump : {FALSE},
                 step : 0..MaxStep, max_count : MaxCounts]
    /\ \E n \in 0..MaxLen, base \in PosBases :
          /\ positions = PosSeq(base, n)
          /\ counts \in [1..n -> CountVals]
    /\ coverage \in Coverages
    /\ segments = <<>>
    /\ calls = PlottingStarted
    /\ gil = 1 /\ hnd = [plt |-> TRUE, fig |-> TRUE, ax |-> TRUE]
    /\ Idle

NextScatter == Scatter

SpecScatter == InitScatter /\ [][NextScatter]_vars

\* A caller about to run PyPlot::with_plt(f).
InitLib ==
    /\ pc = "wp_start"
    /\ args = NoArgs
    /\ positions = <<>> /\ counts = <<>> /\ coverage = 1 /\ segments = <<>>
    /\ calls = <<>> /\ gil = 0 /\ hnd = NoHnd
    /\ Idle

NextLib ==
    \/ WithPltEnter \/ WithPltImport \/ WithPltCall
    \/ CbFigure \/ CbGca \/ CbBar \/ CbShow \/ CbReturn
    \/ WithPltReturn

SpecLib == InitLib /\ [][NextLib]_vars

---------------------------------------------------------------------------
(* Properties *)

Called(name) == \E i \in 1..Len(calls) : calls[i].name = name

Names(cs) == [i \in 1..Len(cs) |-> cs[i].name]

\* C1: over valid segments the x array and the y array handed to line have
\* the same length, three times the number of segments (none for no
\* segment), the dump prints as many lines, and the equal-count assertion of
\* the dump path does not fail.
C1_ThreePointsPerSegment ==
    AllValid(segments, positions) =>
        /\ result # Panic("assert_eq")
        /\ Called("line") =>
              /\ Len(lx) = 3 * Len(segments)
              /\ Len(ly) = 3 * Len(segments)
        /\ (args.dump /\ pc \in {"line", "show", "done"}
              /\ result.kind # "panic") => Len(out) = 3 * Len(segments)

C1_Witness ==
    /\ Called("line")
    /\ args.dump
    /\ AllValid(segments, positions)
    /\ Len(segments) = MaxSegs
    /\ Len(lx) = 3 * MaxSegs
    /\ Len(out) = 3 * MaxSegs

C3_InvalidSegmentFails ==
    (~AllValid(segments, positions) /\ pc \in {"show", "done"}) =>
        /\ result.kind = "panic"
        /\ ~Called("line")

\* C4: with neither --segments nor --target the command returns the error
\* "Need --segments or --target", and no session is acquired and no library
\* call is made at any point of the run.
C4_NoInputNoPlotting ==
    (~args.segments /\ ~args.target) =>
        /\ calls = <<>>
        /\ gil = 0
        /\ pc \in {"start", "target", "done"}
        /\ pc = "done" => result = Err("Need --segments or --target")

C4_Witness ==
    /\ ~args.segments
    /\ ~args.target
    /\ pc = "done"
    /\ result = Err("Need --segments or --target")
    /\ calls = <<>>

\* The y value of count c with jitter j / JitterDen:
\* (min(c, max_count) + U - 0.5) * 2 / coverage
\*     = (2 * JitterDen * m + 2 * j - JitterDen) / (JitterDen * coverage).
IsJitteredY(v, c, j) ==
    LET m == IF c > args.max_count THEN args.max_count ELSE c
    IN  v[1] * (JitterDen * coverage)
            = v[2] * (2 * JitterDen * m + 2 * j - JitterDen)

\* C5: with stride s >= 1 over n positions and n counts the scatter call
\* receives two arrays of length ceil(n / s), whose k-th point comes from
\* positions[k * s] (as the nearest f32) and counts[k * s].
C5_EveryNth ==
    (Called("scatter") /\ args.step >= 1) =>
        LET n == Len(counts)
            s == args.step
        IN  /\ Len(sx) = (n + s - 1) \div s
            /\ Len(sy) = Len(sx)
            /\ \A k \in 1..Len(sx) :
                  LET i == (k - 1) * s + 1
                      p == positions[i]
                      d == IF sx[k] >= p THEN sx[k] - p ELSE p - sx[k]
                  IN  /\ i <= n
                      /\ p < 16777216 => sx[k] = p
                      /\ d * 16777216 <= p
                      /\ IsJitteredY(sy[k], counts[i], jit[i])

C5_Witness ==
    /\ Called("scatter")
    /\ Len(counts) = 3
    /\ args.step = 2
    /\ Len(sy) = 2
    /\ sx = <<positions[1], positions[3]>>

\* C6: every sampled y is (min(count, max_count) + U - 0.5) * 2 / coverage
\* for the count and the jitter U in [0, 1) of its index: a count above
\* max_count gives what max_count gives with the same jitter, and jitter 0,
\* count 0, coverage 2 give -0.5.
C6_ClampJitterScale ==
    (Called("scatter") /\ args.step >= 1) =>
        \A k \in 1..Len(sy) :
            LET i == (k - 1) * args.step + 1
                c == counts[i]
                m == IF c > args.max_count THEN args.max_count ELSE c
                v == sy[k]
            IN  /\ v[2] > 0
                /\ IsJitteredY(v, c, jit[i])
                /\ jit[i] >= 0 /\ jit[i] < JitterDen
                /\ c > args.max_count =>
                      v = JitterY(args.max_count, jit[i], args.max_count, coverage)
                /\ (c = 0 /\ jit[i] = 0 /\ coverage = 2) => 2 * v[1] = -v[2]

C6_Witness ==
    /\ Called("scatter")
    /\ args.step = 2
    /\ Len(sy) = 2
    /\ counts[1] > args.max_count /\ jit[1] > 0
    /\ counts[3] = 0 /\ jit[3] = 0 /\ coverage = 2
    /\ 2 * sy[2][1] = -sy[2][2]

\* C7: the arrays handed to line are what a fresh run of the transform over
\* the segments and positions yields, with or without the dump having run
\* over clones first; the dump leaves main's iterators where they were; and
\* no step changes the segments or the positions.
C7_State ==
    /\ pc = "line" => (x = IterNew /\ y = IterNew)
    /\ Called("line") =>
          /\ lx = XCollect(IterNew, segments, positions, <<>>).items
          /\ ly = YCollect(IterNew, segments, <<>>).items
          /\ args.dump =>
                /\ [i \in 1..Len(out) |-> out[i][1]] = lx
                /\ [i \in 1..Len(out) |-> out[i][2]] = ly

\* C7, as a property of every run: the state part always holds and the
\* inputs never change.
C7_PureRestartable ==
    /\ []C7_State
    /\ [][segments' = segments /\ positions' = positions]_vars

C7_Witness ==
    /\ Called("line")
    /\ args.dump
    /\ Len(segments) = MaxSegs
    /\ Len(out) = 3 * MaxSegs
    /\ Len(lx) = 3 * MaxSegs
    /\ \E i \in 1..Len(ly) : ly[i].nan

\* The library calls of a plotting run, in order.
RunOrder ==
    IF args.segments
    THEN <<"import", "figure", "gca", "scatter", "line", "show">>
    ELSE <<"import", "figure", "gca", "scatter", "show">>

\* C8: the calls made are a prefix of the run's order (so none is repeated);
\* a failed call is the last one made and the run returns its error; show is
\* made only after every earlier call succeeded; and the run returns success
\* exactly when show, and with it every call, succeeded.
C8_AbortOnFirstFailure ==
    /\ Len(calls) <= Len(RunOrder)
    /\ Names(calls) = SubSeq(RunOrder, 1, Len(calls))
    /\ \A i \in 1..Len(calls) :
          ~calls[i].ok =>
              /\ i = Len(calls)
              /\ pc = "done"
              /\ result = Err(calls[i].name)
    /\ result.kind = "ok" <=>
          /\ pc = "done"
          /\ Len(calls) = Len(RunOrder)
          /\ \A i \in 1..Len(calls) : calls[i].ok

C8_Witness ==
    /\ pc = "done"
    /\ args.segments
    /\ Len(calls) = 5
    /\ calls[5].name = "line"
    /\ ~calls[5].ok
    /\ result = Err("line")

BarCalls == SelectSeq(calls, LAMBDA c : c.name \in {"bar", "barh"})

\* C9: every Axes::bar invocation makes one library call: "bar" with the
\* widths under "width" when horizontal is false, "barh" with the widths
\* under "height" when it is true, no keyword when widths is None; and it
\* returns its own handle when the call succeeds.
C9_BarForwards ==
    /\ Len(BarCalls) = Len(barin)
    /\ \A i \in 1..Len(barin) :
          LET b == barin[i]
              c == BarCalls[i]
          IN  /\ c.name = (IF b.horizontal THEN "barh" ELSE "bar")
              /\ b.widths = "None" => c.kw = {}
              /\ (b.widths # "None" /\ b.horizontal)
                    => c.kw = {<<"height", b.widths>>}
              /\ (b.widths # "None" /\ ~b.horizontal)
                    => c.kw = {<<"width", b.widths>>}
              /\ c.ok <=> b.ret = "self"

C9_Witness ==
    \E i \in 1..Len(barin), j \in 1..Len(barin) :
        /\ barin[i].horizontal /\ barin[i].widths = "w1"
        /\ barin[i].ret = "self"
        /\ ~barin[j].horizontal /\ barin[j].widths = "w2"
        /\ BarCalls[i] = Call("barh", {<<"height", "w1">>}, TRUE)
        /\ BarCalls[j].name = "bar"

\* C10: with_plt holds one session from before the import until it returns;
\* the callback runs at most once, with the session held and the module
\* imported; a failed import returns the import error without running the
\* callback; otherwise with_plt returns what the callback returned; and the
\* session is released when with_plt is done, on success and on error.
C10_OneSessionOneCall ==
    /\ gil \in {0, 1}
    /\ gil = 1 <=> pc \in {"wp_import", "wp_call", "cb", "wp_ret"}
    /\ pc = "wp_start" => calls = <<>>
    /\ cb.count <= 1
    /\ cb.count = 1 <=> pc \in {"cb", "wp_ret"} \/ (pc = "done" /\ calls[1].ok)
    /\ cb.count = 1 => (cb.held /\ cb.imported /\ calls[1].ok)
    /\ (calls # <<>> /\ ~calls[1].ok) =>
          /\ pc = "done"
          /\ Len(calls) = 1
          /\ result = Err("import")
    /\ (pc = "done" /\ cb.count = 1) => result = cb.ret
    /\ pc = "done" => (gil = 0 /\ result.kind \in {"ok", "err"})

C10_Witness ==
    /\ pc = "done"
    /\ gil = 0
    /\ cb.count = 1
    /\ Len(calls) > 1
    /\ result = Err("callback")

=============================================================================
